---- MODULE Spec2Model ----
(***************************************************************************)
(* S3-FIFO eviction engine (rust-implementation&improve/src/lib.rs):       *)
(* three FIFO queues (small, main, ghost), per-entry atomic u8 frequency   *)
(* counters and an adaptive cap on the small queue.                        *)
(* Queues are sequences whose index 1 is the FRONT (push_front) and whose  *)
(* last index is the BACK (pop_back).                                      *)
(***************************************************************************)
EXTENDS Integers, Sequences, FiniteSets, TLC

\* ---------------------------------------------------------------- bounds
MaxKey == 2
MaxVal == 2
MaxCap == 3
MaxAnyArg == 1
MaxCountArg == 2
NumReaders == 2
MaxEvict == 3
MaxInserts == 6

\* ------------------------------------------------------ program constants
MAX_FREQ == 3
U8 == 256
TickPeriodOff == 3 + 1
TickPeriod == 3

Keys == 1..MaxKey
Values == 1..MaxVal
Readers == 1..NumReaders
None == 0

VARIABLES small, main, ghost, small_size, small_min_size, small_max_size,
          main_size, insert_count, small_operated, underflow, op, ret,
          rpc, rent, ev, hist

vars == <<small, main, ghost, small_size, small_min_size, small_max_size,
          main_size, insert_count, small_operated, underflow, op, ret,
          rpc, rent, ev, hist>>

\* ------------------------------------------------------------ Entry::new
Entry(k, v) == [key |-> k, value |-> v, freq |-> 0]

Min(a, b) == IF a <= b THEN a ELSE b
Max(a, b) == IF a >= b THEN a ELSE b

PushFront(q, e) == <<e>> \o q
Back(q) == q[Len(q)]
PopBack(q) == SubSeq(q, 1, Len(q) - 1)

\* VecDeque::contains / iter().any(key ==)
Contains(q, k) == \E i \in 1..Len(q) : q[i] = k
HasKey(q, k) == \E i \in 1..Len(q) : q[i].key = k

\* ------------------------------------------------------------ evict_main
should_requeue_gt1(n) == n > 1

\* `if n > 0`: an entry with remaining credit is re-queued
should_requeue(n) == n > 0

requeue_back(rest, e) == rest \o <<e>>

\* `self.main.push_front(tail)`: the survivor goes back to the FRONT of Main
requeue(rest, e) == PushFront(rest, e)

\* Result: [main, underflow, pops, victim].  n - 1 is a u8 subtraction (width 8);
\* underflow records a subtraction whose left operand was 0; pops counts the
\* pop_back calls that returned an entry; victim is <<e>> for the entry e that
\* the loop dropped at `break`, <<>> when pop_back returned None.
RECURSIVE evict_main(_)
evict_main(m) ==
    IF m = <<>> THEN [main |-> m, underflow |-> FALSE, pops |-> 0, victim |-> <<>>]
    ELSE LET tail == Back(m)
             rest == PopBack(m)
             n == tail.freq
         IN IF should_requeue(n)
            THEN LET r == evict_main(requeue(rest, [tail EXCEPT !.freq = (n - 1) % U8]))
                 IN [main |-> r.main, underflow |-> r.underflow \/ (n = 0),
                     pops |-> r.pops + 1, victim |-> r.victim]
            ELSE [main |-> rest, underflow |-> FALSE, pops |-> 1, victim |-> <<tail>>]

\* `self.main.len() >= self.main_size`, `self.ghost.len() >= self.main_size`,
\* `self.small.len() >= self.small_size`
main_full(m, msz) == Len(m) >= msz
ghost_full(g, msz) == Len(g) >= msz

small_full_strict(s, ssz) == Len(s) > ssz

small_full(s, ssz) == Len(s) >= ssz

is_hot_gt2(f) == f > 2

\* `tail.freq.load(SeqCst) > 1`: the entry leaving Small is promoted to Main
is_hot(f) == f > 1

\* ----------------------------------------------------------- evict_small
evict_small_reset(s, m, g, msz) ==
    IF s = <<>> THEN [small |-> s, main |-> m, ghost |-> g, underflow |-> FALSE]
    ELSE LET tail == Back(s)
             rest == PopBack(s)
         IN IF is_hot(tail.freq)
            THEN LET em == IF main_full(m, msz) THEN evict_main(m)
                           ELSE [main |-> m, underflow |-> FALSE]
                 IN [small |-> rest, main |-> PushFront(em.main, Entry(tail.key, tail.value)),
                     ghost |-> g, underflow |-> em.underflow]
            ELSE LET g1 == IF ghost_full(g, msz) /\ g # <<>> THEN PopBack(g) ELSE g
                 IN [small |-> rest, main |-> m,
                     ghost |-> PushFront(g1, tail.key), underflow |-> FALSE]

\* Result: [small, main, ghost, underflow].  VecDeque::pop_back on an empty
\* ghost returns None and removes nothing.
evict_small(s, m, g, msz) ==
    IF s = <<>> THEN [small |-> s, main |-> m, ghost |-> g, underflow |-> FALSE]
    ELSE LET tail == Back(s)
             rest == PopBack(s)
         IN IF is_hot(tail.freq)
            THEN LET em == IF main_full(m, msz) THEN evict_main(m)
                           ELSE [main |-> m, underflow |-> FALSE]
                 IN [small |-> rest, main |-> PushFront(em.main, tail),
                     ghost |-> g, underflow |-> em.underflow]
            ELSE LET g1 == IF ghost_full(g, msz) /\ g # <<>> THEN PopBack(g) ELSE g
                 IN [small |-> rest, main |-> m,
                     ghost |-> PushFront(g1, tail.key), underflow |-> FALSE]

\* ----------------------------------------------------- adjust_small_size
should_increase_small(s, ssz) == Len(s) = ssz
should_decrease_small_any(operated, ssz, smin) == ssz > smin
should_decrease_small(operated, ssz, smin) == operated /\ ssz > smin

adjust_small_size_uncapped(s, ssz, smin, smax, operated) ==
    IF should_increase_small(s, ssz)
    THEN [small_size |-> ssz + 1, underflow |-> FALSE]
    ELSE IF should_decrease_small(operated, ssz, smin)
         THEN [small_size |-> Max(IF ssz >= 1 THEN ssz - 1 ELSE 0, smin),
               underflow |-> ssz < 1]
         ELSE [small_size |-> ssz, underflow |-> FALSE]

\* Result: [small_size, underflow]; small_size - 1 is a usize subtraction,
\* underflow records one whose left operand was 0.
adjust_small_size(s, ssz, smin, smax, operated) ==
    IF should_increase_small(s, ssz)
    THEN [small_size |-> Min(ssz + 1, smax), underflow |-> FALSE]
    ELSE IF should_decrease_small(operated, ssz, smin)
         THEN [small_size |-> Max(IF ssz >= 1 THEN ssz - 1 ELSE 0, smin),
               underflow |-> ssz < 1]
         ELSE [small_size |-> ssz, underflow |-> FALSE]

\* ---------------------------------------------------------------- insert
ghost_hit_front(g, k) == g # <<>> /\ g[1] = k

\* `self.ghost.contains(&key)`
ghost_hit(g, k) == Contains(g, k)

RECURSIVE Without(_, _)
Without(g, k) ==
    IF g = <<>> THEN g
    ELSE IF Head(g) = k THEN Tail(g) ELSE <<Head(g)>> \o Without(Tail(g), k)

ghost_consumed(g, k) == Without(g, k)

\* the Ghost queue after an insert found its key there: the branch at
\* `if self.ghost.contains(&key)` never writes self.ghost
ghost_kept(g, k) == g

Insert(k, v) ==
    LET operated_on_small == HasKey(small, k)
        operated1 == IF operated_on_small THEN TRUE ELSE small_operated
        inGhost == ghost_hit(ghost, k)
        em == IF main_full(main, main_size) THEN evict_main(main)
              ELSE [main |-> main, underflow |-> FALSE]
        es == IF small_full(small, small_size)
              THEN evict_small(small, main, ghost, main_size)
              ELSE [small |-> small, main |-> main, ghost |-> ghost, underflow |-> FALSE]
        small1 == IF inGhost THEN small ELSE PushFront(es.small, Entry(k, v))
        main1 == IF inGhost THEN PushFront(em.main, Entry(k, v)) ELSE es.main
        ghost1 == IF inGhost THEN ghost_kept(ghost, k) ELSE es.ghost
        uf1 == IF inGhost THEN em.underflow ELSE es.underflow
        count1 == insert_count + 1
        tick == count1 >= TickPeriod
        adj == adjust_small_size(small1, small_size, small_min_size, small_max_size, operated1)
    IN /\ small' = small1
       /\ main' = main1
       /\ ghost' = ghost1
       /\ small_size' = IF tick THEN adj.small_size ELSE small_size
       /\ insert_count' = IF tick THEN 0 ELSE count1
       /\ small_operated' = IF tick THEN FALSE ELSE operated1
       /\ underflow' = (underflow \/ uf1 \/ (tick /\ adj.underflow))
       /\ op' = [name |-> "insert", key |-> k, value |-> v]
       /\ ret' = None
       /\ UNCHANGED <<small_min_size, small_max_size, main_size, rpc, rent>>

\* ------------------------------------------------------------------ read
\* Iterator::find over one queue, front to back: index of the first match, 0 if none
RECURSIVE FindFrom(_, _, _)
FindFrom(q, k, i) ==
    IF i > Len(q) THEN 0
    ELSE IF q[i].key = k THEN i ELSE FindFrom(q, k, i + 1)

NoPos == [q |-> "none", i |-> 0]

find_small_only(s, m, k) ==
    LET i == FindFrom(s, k, 1)
    IN IF i # 0 THEN [q |-> "small", i |-> i] ELSE NoPos

find_main_first(s, m, k) ==
    LET j == FindFrom(m, k, 1)
    IN IF j # 0 THEN [q |-> "main", i |-> j]
       ELSE LET i == FindFrom(s, k, 1)
            IN IF i # 0 THEN [q |-> "small", i |-> i] ELSE NoPos

\* small.iter().chain(main.iter()).find(key ==): position of the first match
find(s, m, k) ==
    LET i == FindFrom(s, k, 1)
    IN IF i # 0 THEN [q |-> "small", i |-> i]
       ELSE LET j == FindFrom(m, k, 1)
            IN IF j # 0 THEN [q |-> "main", i |-> j] ELSE NoPos

EntryAt(s, m, pos) == IF pos.q = "small" THEN s[pos.i] ELSE m[pos.i]
SetFreq(q, i, f) == [q EXCEPT ![i].freq = f]

\* freq.fetch_add(1, SeqCst) on an AtomicU8 stores old + 1 mod 2^8 and returns old
fetch_add(f) == (f + 1) % U8

needs_clamp_late(old) == old + 1 > MAX_FREQ + 1

\* `fetch_add(..) + 1 > MAX_FREQ`; the sum is a u8 addition
needs_clamp(old) == old + 1 > MAX_FREQ

clamp_noop(f) == f

\* `entry.freq.store(MAX_FREQ, SeqCst)`: the value the counter holds after the store
clamp(f) == MAX_FREQ

\* read called with exclusive use of the counters (one caller at a time):
\* fetch_add, then the clamping store, then return
Read(k) ==
    LET pos == find(small, main, k)
    IN /\ op' = [name |-> "read", key |-> k, value |-> None]
       /\ IF pos.q = "none"
          THEN /\ ret' = None
               /\ UNCHANGED <<small, main>>
          ELSE LET e == EntryAt(small, main, pos)
                   f1 == IF needs_clamp(e.freq) THEN clamp(fetch_add(e.freq))
                         ELSE fetch_add(e.freq)
               IN /\ small' = IF pos.q = "small" THEN SetFreq(small, pos.i, f1) ELSE small
                  /\ main' = IF pos.q = "main" THEN SetFreq(main, pos.i, f1) ELSE main
                  /\ ret' = e.value
       /\ UNCHANGED <<ghost, small_size, small_min_size, small_max_size, main_size,
                      insert_count, small_operated, underflow, rpc, rent>>

\* ------------------------------------------------------------------- new
NoOp == [name |-> "new", key |-> None, value |-> None]

\* ev: what the last direct call of evict_small / evict_main started from and
\* reported (the queues before the call, the pops and the victim of evict_main).
\* hist: calls counted since new (see InsertCounted).  Both are observations,
\* not fields of S3Fifo.
NoEv == [name |-> "none", small |-> <<>>, main |-> <<>>, ghost |-> <<>>,
         pops |-> 0, victim |-> <<>>]
NoHist == [n |-> 0, touched |-> FALSE, carried |-> FALSE]

New(s, smin, smax, m, ic, so) ==
    /\ small = <<>>
    /\ main = <<>>
    /\ ghost = <<>>
    /\ small_size = s
    /\ small_min_size = smin
    /\ small_max_size = smax
    /\ main_size = m
    /\ insert_count = ic
    /\ small_operated = so
    /\ underflow = FALSE
    /\ op = NoOp
    /\ ret = None
    /\ rpc = [r \in Readers |-> "idle"]
    /\ rent = [r \in Readers |-> NoPos]

\* engines built with 1 <= small_min_size <= small_size <= small_max_size, main_size >= 1;
\* MaxCap bounds the total capacity small_max_size + main_size of the engines explored
Init ==
    \E smin \in 1..MaxCap, s \in 1..MaxCap, smax \in 1..MaxCap,
       m \in 1..MaxCap, ic \in 0..MaxCountArg, so \in BOOLEAN :
        /\ smin <= s /\ s <= smax
        /\ smax + m <= MaxCap
        /\ New(s, smin, smax, m, ic, so)
        /\ ev = NoEv
        /\ hist = NoHist

Next == \/ \E k \in Keys, v \in Values : Insert(k, v) /\ UNCHANGED <<ev, hist>>
        \/ \E k \in Keys : Read(k) /\ UNCHANGED <<ev, hist>>

Spec == Init /\ [][Next]_vars

\* engines built with any arguments: new validates nothing
InitAny ==
    \E smin \in 0..MaxAnyArg, s \in 0..MaxAnyArg, smax \in 0..MaxAnyArg,
       m \in 0..MaxAnyArg, ic \in 0..MaxCountArg, so \in BOOLEAN :
        /\ New(s, smin, smax, m, ic, so)
        /\ ev = NoEv
        /\ hist = NoHist

SpecAny == InitAny /\ [][Next]_vars

\* ------------------------------------------------- calls counted since new
\* insert with its observations: hist.n counts the insert calls made since new
\* (at most MaxInserts are explored); hist.touched tells whether an insert
\* since the last reset of insert_count found its key in Small; hist.carried
\* tells whether the flag passed to new is still the one in effect.
InsertCounted(k, v) ==
    /\ hist.n < MaxInserts
    /\ Insert(k, v)
    /\ hist' = [n |-> hist.n + 1,
                touched |-> IF insert_count' = 0 THEN FALSE
                            ELSE hist.touched \/ HasKey(small, k),
                carried |-> IF insert_count' = 0 THEN FALSE ELSE hist.carried]
    /\ UNCHANGED ev

NextHist == \/ \E k \in Keys, v \in Values : InsertCounted(k, v)
            \/ \E k \in Keys : Read(k) /\ UNCHANGED <<ev, hist>>

\* engines built with valid arguments, any initial_insert_count and flag
InitHist ==
    \E smin \in 1..MaxCap, s \in 1..MaxCap, smax \in 1..MaxCap,
       m \in 1..MaxCap, ic \in 0..MaxCountArg, so \in BOOLEAN :
        /\ smin <= s /\ s <= smax
        /\ smax + m <= MaxCap
        /\ New(s, smin, smax, m, ic, so)
        /\ ev = NoEv
        /\ hist = [n |-> 0, touched |-> FALSE, carried |-> so]

SpecHist == InitHist /\ [][NextHist]_vars

\* engines built with initial_insert_count = 0
InitTick == InitHist /\ insert_count = 0

SpecTick == InitTick /\ [][NextHist]_vars

\* ------------------------------------------------- concurrent readers
\* read(&self) run by several threads on a shared engine; no insert runs
\* meanwhile (insert takes &mut self).  Each reader makes one call, in two
\* atomic steps: the fetch_add, then, when its result exceeds MAX_FREQ, the store.
ReadFetchAdd(r, k) ==
    LET pos == find(small, main, k)
    IN /\ rpc[r] = "ready"
       /\ IF pos.q = "none"
          THEN /\ rpc' = [rpc EXCEPT ![r] = "done"]
               /\ ret' = None
               /\ op' = [name |-> "read", key |-> k, value |-> None]
               /\ UNCHANGED <<small, main, rent>>
          ELSE LET e == EntryAt(small, main, pos)
                   f1 == fetch_add(e.freq)
               IN /\ small' = IF pos.q = "small" THEN SetFreq(small, pos.i, f1) ELSE small
                  /\ main' = IF pos.q = "main" THEN SetFreq(main, pos.i, f1) ELSE main
                  /\ rent' = [rent EXCEPT ![r] = pos]
                  /\ IF needs_clamp(e.freq)
                     THEN /\ rpc' = [rpc EXCEPT ![r] = "clamp"]
                          /\ UNCHANGED <<ret, op>>
                     ELSE /\ rpc' = [rpc EXCEPT ![r] = "done"]
                          /\ ret' = e.value
                          /\ op' = [name |-> "read", key |-> k, value |-> None]
       /\ UNCHANGED <<ghost, small_size, small_min_size, small_max_size, main_size,
                      insert_count, small_operated, underflow>>

ReadClamp(r) ==
    LET pos == rent[r]
        e == EntryAt(small, main, pos)
    IN /\ rpc[r] = "clamp"
       /\ small' = IF pos.q = "small" THEN SetFreq(small, pos.i, clamp(e.freq)) ELSE small
       /\ main' = IF pos.q = "main" THEN SetFreq(main, pos.i, clamp(e.freq)) ELSE main
       /\ rpc' = [rpc EXCEPT ![r] = "done"]
       /\ ret' = e.value
       /\ op' = [name |-> "read", key |-> e.key, value |-> None]
       /\ UNCHANGED <<ghost, small_size, small_min_size, small_max_size, main_size,
                      insert_count, small_operated, underflow, rent>>

\* Entries a queue can hold between calls when every counter is within [0, MAX_FREQ]
Entries == [key : Keys, value : Values, freq : 0..MAX_FREQ]

\* The shared engine: new(2, 1, 2, 1, 0, false), then one or two inserts, each
\* followed by any number of reads of the entry then at the front of Small.
InitConc ==
    \E s0 \in {<<a>> : a \in Entries} \cup {<<a, b>> : a \in Entries, b \in Entries} :
        /\ small = s0
        /\ main = <<>>
        /\ ghost = <<>>
        /\ small_size = 2
        /\ small_min_size = 1
        /\ small_max_size = 2
        /\ main_size = 1
        /\ insert_count = Len(s0)
        /\ small_operated = (Len(s0) = 2 /\ s0[1].key = s0[2].key)
        /\ underflow = FALSE
        /\ op = NoOp
        /\ ret = None
        /\ rpc = [r \in Readers |-> "ready"]
        /\ rent = [r \in Readers |-> NoPos]
        /\ ev = [NoEv EXCEPT !.name = "shared", !.small = s0]
        /\ hist = NoHist

NextConc == \/ \E r \in Readers, k \in Keys : ReadFetchAdd(r, k) /\ UNCHANGED <<ev, hist>>
            \/ \E r \in Readers : ReadClamp(r) /\ UNCHANGED <<ev, hist>>

SpecConc == InitConc /\ [][NextConc]_vars

\* ------------------------------------------- evict_small, evict_main alone
\* One call of a private eviction method on an engine whose queues hold any
\* entries with counters in [0, MAX_FREQ].
EvictMainStep ==
    LET r == evict_main(main)
    IN /\ main' = r.main
       /\ underflow' = (underflow \/ r.underflow)
       /\ ev' = [name |-> "evict_main", small |-> small, main |-> main,
                 ghost |-> ghost, pops |-> r.pops, victim |-> r.victim]
       /\ UNCHANGED <<small, ghost, small_size, small_min_size, small_max_size,
                      main_size, insert_count, small_operated, op, ret, rpc, rent, hist>>

EvictSmallStep ==
    LET r == evict_small(small, main, ghost, main_size)
    IN /\ small' = r.small
       /\ main' = r.main
       /\ ghost' = r.ghost
       /\ underflow' = (underflow \/ r.underflow)
       /\ ev' = [name |-> "evict_small", small |-> small, main |-> main,
                 ghost |-> ghost, pops |-> 0, victim |-> <<>>]
       /\ UNCHANGED <<small_size, small_min_size, small_max_size,
                      main_size, insert_count, small_operated, op, ret, rpc, rent, hist>>

\* sequences of at most n elements of S
RECURSIVE SeqsUpTo(_, _)
SeqsUpTo(S, n) ==
    IF n = 0 THEN {<<>>}
    ELSE LET shorter == SeqsUpTo(S, n - 1)
         IN shorter \cup {<<x>> \o q : x \in S, q \in {t \in shorter : Len(t) = n - 1}}

\* Engines for the eviction methods: either a Main of up to MaxEvict entries at
\* its cap with a short Small and Ghost, or caps below MaxEvict with Small,
\* Main and Ghost filled in every way up to their caps.
EvictEngine(s0, m0, g0, msz) ==
    /\ small = s0
    /\ main = m0
    /\ ghost = g0
    /\ main_size = msz
    /\ small_size = Max(Len(s0), 1)
    /\ small_min_size = 1
    /\ small_max_size = Max(Len(s0), 1)
    /\ insert_count = 0
    /\ small_operated = FALSE
    /\ underflow = FALSE
    /\ op = NoOp
    /\ ret = None
    /\ rpc = [r \in Readers |-> "idle"]
    /\ rent = [r \in Readers |-> NoPos]
    /\ ev = NoEv
    /\ hist = NoHist

InitEvict ==
    \/ \E m0 \in SeqsUpTo(Entries, MaxEvict),
          s0 \in {<<>>, <<[key |-> 1, value |-> 1, freq |-> MAX_FREQ]>>},
          g0 \in {<<>>, <<1>>} :
           EvictEngine(s0, m0, g0, Max(Len(m0), 1))
    \/ \E msz \in 1..(MaxEvict - 1) :
       \E m0 \in SeqsUpTo(Entries, msz), g0 \in SeqsUpTo(Keys, msz),
          s0 \in {<<>>} \cup {<<b>> : b \in Entries}
                        \cup {<<Entry(1, 1), b>> : b \in Entries} :
           EvictEngine(s0, m0, g0, msz)

NextEvict == EvictMainStep \/ EvictSmallStep

SpecEvict == InitEvict /\ [][NextEvict]_vars

\* ======================================================================
\* Properties
\* ======================================================================
Resident(k) == HasKey(small, k) \/ HasKey(main, k)
AllFreqs == {small[i].freq : i \in 1..Len(small)} \cup {main[i].freq : i \in 1..Len(main)}

\* C1 (capacity invariant): for engines built with 1 <= small_min_size <=
\* small_size <= small_max_size and main_size >= 1, after every insert or read
\* len(small) <= small_size, len(main) <= main_size and len(ghost) <= main_size.
Thm_C1 ==
    /\ Len(small) <= small_size
    /\ Len(main) <= main_size
    /\ Len(ghost) <= main_size

\* an insert has just left all three queues exactly at their caps
Wit_C1 ==
    /\ op.name = "insert"
    /\ Len(small) = small_size
    /\ Len(main) = main_size
    /\ Len(ghost) = main_size
    /\ small_size > small_min_size

\* C2 (mutual exclusion): after every public operation no key is present in
\* both the Small queue and the Main queue.
Cex_C2 == \A k \in Keys : ~(HasKey(small, k) /\ HasKey(main, k))

\* C3 (read-after-insert): from every reachable state, insert(k, v) immediately
\* followed by read(k) returns v.
Cex_C3 ==
    [][(op.name = "insert" /\ op'.name = "read" /\ op'.key = op.key)
          => ret' = op.value]_vars

\* C4 (frequency bound): after every insert or read every resident entry's
\* counter is in [0, MAX_FREQ]; a read of an entry whose counter is MAX_FREQ
\* leaves it at MAX_FREQ; evict_main never decrements a counter that is 0.
FreqInRange == \A f \in AllFreqs : f >= 0 /\ f <= MAX_FREQ

ReadKeepsMax ==
    \A k \in Keys :
        (Read(k) /\ Resident(k)) =>
            LET pos == find(small, main, k)
            IN EntryAt(small, main, pos).freq = MAX_FREQ
                   => EntryAt(small', main', pos).freq = MAX_FREQ

Thm_C4 == [](FreqInRange /\ ~underflow) /\ [][ReadKeepsMax]_vars

\* a read has just hit an entry whose counter is MAX_FREQ after it, while Main
\* holds an entry whose counter is 0
Wit_C4 ==
    /\ op.name = "read"
    /\ ret # None
    /\ EntryAt(small, main, find(small, main, op.key)).freq = MAX_FREQ
    /\ \E i \in 1..Len(main) : main[i].freq = 0

\* C5 (size bounds): for engines built with small_min_size <= small_size <=
\* small_max_size, small_size stays within [small_min_size, small_max_size] and
\* small_min_size, small_max_size and main_size never change.
Thm_C5 ==
    /\ [](small_min_size <= small_size /\ small_size <= small_max_size)
    /\ [][UNCHANGED <<small_min_size, small_max_size, main_size>>]_vars

\* a sizing step has just run with Small full and small_size already at its maximum
Wit_C5 ==
    /\ op.name = "insert"
    /\ insert_count = 0
    /\ Len(small) = small_size
    /\ small_size = small_max_size
    /\ small_min_size < small_max_size

\* C6 (miss consistency): read(k) returns None if and only if no entry with
\* key k is in Small or Main; a key that is only in Ghost is a miss.
Thm_C6 == (op.name = "read") => ((ret = None) <=> ~Resident(op.key))

\* a read of a key that is in Ghost and in neither Small nor Main has returned None
Wit_C6 ==
    /\ op.name = "read"
    /\ ret = None
    /\ Contains(ghost, op.key)
    /\ small # <<>>
    /\ main # <<>>

\* C7 (insert routing): insert(k, v) puts exactly one new entry (k, v, freq 0)
\* at the front of Main when k is in Ghost at the time of the call and at the
\* front of Small otherwise, whether or not k is already resident.
Count(q, k, v) == Cardinality({i \in 1..Len(q) : q[i].key = k /\ q[i].value = v})

OneNewEntry(k, v) ==
    \A k2 \in Keys, v2 \in Values :
        Count(small', k2, v2) + Count(main', k2, v2)
            <= Count(small, k2, v2) + Count(main, k2, v2)
               + (IF k2 = k /\ v2 = v THEN 1 ELSE 0)

Routing(k, v) ==
    /\ OneNewEntry(k, v)
    /\ IF Contains(ghost, k)
       THEN /\ main' # <<>>
            /\ Head(main') = [key |-> k, value |-> v, freq |-> 0]
            /\ small' = small
       ELSE /\ small' # <<>>
            /\ Head(small') = [key |-> k, value |-> v, freq |-> 0]
            /\ Tail(small') \in {small, PopBack(small)}
            /\ \A i \in 1..Len(main') :
                   \/ \E j \in 1..Len(main) :
                          main'[i].key = main[j].key /\ main'[i].value = main[j].value
                   \/ small # <<>> /\ main'[i] = Back(small)

Thm_C7 == [][\A k \in Keys, v \in Values : Insert(k, v) => Routing(k, v)]_vars

\* an insert of a key that is in Ghost and also resident in Small has gone to Main
Wit_C7 ==
    /\ op.name = "insert"
    /\ Contains(ghost, op.key)
    /\ HasKey(small, op.key)
    /\ main # <<>>
    /\ Head(main) = [key |-> op.key, value |-> op.value, freq |-> 0]
    /\ Head(small) # [key |-> op.key, value |-> op.value, freq |-> 0]

\* C8 (read frame): a read that misses changes nothing in the engine; a read
\* that hits changes only the counter of the first match (Small front to back,
\* then Main front to back) and leaves membership, order, Ghost, small_size,
\* the insert counter and the activity flag unchanged.
SameButFreqAt(q1, q0, i) ==
    /\ Len(q1) = Len(q0)
    /\ \A j \in 1..Len(q0) :
           /\ q1[j].key = q0[j].key
           /\ q1[j].value = q0[j].value
           /\ (j # i => q1[j].freq = q0[j].freq)

IsFirstMatch(q, k, i) ==
    /\ i \in 1..Len(q)
    /\ q[i].key = k
    /\ \A j \in 1..(i - 1) : q[j].key # k

ReadFrame(k) ==
    /\ UNCHANGED <<ghost, small_size, small_min_size, small_max_size, main_size,
                   insert_count, small_operated, underflow>>
    /\ IF ~Resident(k) THEN UNCHANGED <<small, main>>
       ELSE IF HasKey(small, k)
            THEN /\ main' = main
                 /\ \E i \in 1..Len(small) :
                        IsFirstMatch(small, k, i) /\ SameButFreqAt(small', small, i)
            ELSE /\ small' = small
                 /\ \E i \in 1..Len(main) :
                        IsFirstMatch(main, k, i) /\ SameButFreqAt(main', main, i)

Thm_C8 == [][\A k \in Keys : Read(k) => ReadFrame(k)]_vars

\* a read has just hit a key that has entries in both Small and Main
Wit_C8 ==
    /\ op.name = "read"
    /\ ret # None
    /\ HasKey(small, op.key)
    /\ HasKey(main, op.key)
    /\ \E i \in 1..Len(small) : small[i].freq > 0

\* C9 (the structure never fails): for every combination of arguments accepted
\* by new, every insert completes without arithmetic underflow and leaves each
\* queue at or below its cap.
Cex_C9 ==
    /\ ~underflow
    /\ Len(small) <= small_size
    /\ Len(main) <= main_size /\ Len(ghost) <= main_size

\* C10 (concurrent reads): while readers run read concurrently, the counter of
\* an entry never exceeds MAX_FREQ in any state of any interleaving.
Cex_C10 == \A f \in AllFreqs : f <= MAX_FREQ

\* readers that have done their fetch_add on the entry at pos and not yet their store
Clamping(pos) == {r \in Readers : rpc[r] = "clamp" /\ rent[r] = pos}

Positions == {[q |-> "small", i |-> i] : i \in 1..Len(small)}
                 \cup {[q |-> "main", i |-> i] : i \in 1..Len(main)}

\* C10 as amended: an entry's counter exceeds MAX_FREQ by at most the number of
\* readers that are between their fetch_add and their clamping store on that
\* entry; so it is at most MAX_FREQ whenever no reader is mid-call on it.
Thm_C10 ==
    \A pos \in Positions :
        EntryAt(small, main, pos).freq <= MAX_FREQ + Cardinality(Clamping(pos))

\* one reader has returned, another is before its store, and the counter is above MAX_FREQ
Wit_C10 ==
    /\ \E r \in Readers : rpc[r] = "done"
    /\ \E r \in Readers :
           /\ rpc[r] = "clamp"
           /\ EntryAt(small, main, rent[r]).freq > MAX_FREQ

\* ---------------------------------------------------------------------
\* Eviction methods (specification SpecEvict)
RECURSIVE SumFreq(_)
SumFreq(q) == IF q = <<>> THEN 0 ELSE Head(q).freq + SumFreq(Tail(q))

MinFreq(q) == CHOOSE f \in {q[i].freq : i \in 1..Len(q)} :
                  \A i \in 1..Len(q) : f <= q[i].freq

\* the entry nearest the back among those with the minimum counter
VictimIdx(q) == CHOOSE i \in 1..Len(q) :
                    /\ q[i].freq = MinFreq(q)
                    /\ \A j \in (i + 1)..Len(q) : q[j].freq > MinFreq(q)

Lowered(e, d) == [e EXCEPT !.freq = e.freq - d]

\* Main after one evict_main, in closed form: the entries that were behind the
\* victim, lowered by m + 1, then the entries that were in front, lowered by m
Survivors(q) ==
    LET n == Len(q)
        m == MinFreq(q)
        v == VictimIdx(q)
    IN [i \in 1..(n - 1) |->
           IF i <= n - v THEN Lowered(q[v + i], m + 1)
           ELSE Lowered(q[i - (n - v)], m)]

\* C11 (evict-from-Small policy): evict_small removes the back entry of Small;
\* with counter > 1 that same entry goes to the front of Main, after one
\* evict_main when Main is at capacity, and Ghost is unchanged; with counter
\* <= 1 only its key goes to the front of Ghost, after dropping Ghost's back
\* key when Ghost is at capacity, and Main is unchanged.
Thm_C11 ==
    (ev.name = "evict_small" /\ ev.small # <<>>) =>
        LET t == Back(ev.small)
        IN /\ small = PopBack(ev.small)
           /\ IF t.freq > 1
              THEN /\ main # <<>>
                   /\ Head(main) = t
                   /\ Tail(main) = IF Len(ev.main) >= main_size /\ ev.main # <<>>
                                   THEN Survivors(ev.main) ELSE ev.main
                   /\ ghost = ev.ghost
              ELSE /\ main = ev.main
                   /\ ghost = <<t.key>> \o (IF Len(ev.ghost) >= main_size
                                            THEN PopBack(ev.ghost) ELSE ev.ghost)

\* evict_small has just moved a twice-read entry into a Main that was at capacity
Wit_C11 ==
    /\ ev.name = "evict_small"
    /\ Len(ev.small) = 2
    /\ Back(ev.small).freq = 2
    /\ Len(ev.main) = main_size
    /\ ev.ghost # <<>>
    /\ Head(main) = Back(ev.small)

\* C12 (evict-from-Main terminates and removes exactly one entry): on a
\* non-empty Main with counters in [0, MAX_FREQ] the loop ends after at most
\* (sum of the counters) + 1 pops, the entry it discards has counter 0 when
\* discarded, and Main is one shorter; on an empty Main nothing changes.
Thm_C12 ==
    (ev.name = "evict_main") =>
        /\ small = ev.small
        /\ ghost = ev.ghost
        /\ IF ev.main = <<>>
           THEN main = <<>> /\ ev.pops = 0 /\ ev.victim = <<>>
           ELSE /\ ev.pops <= SumFreq(ev.main) + 1
                /\ Len(ev.victim) = 1
                /\ ev.victim[1].freq = 0
                /\ Len(main) = Len(ev.main) - 1

\* evict_main has just needed every one of the (sum of counters) + 1 pops
Wit_C12 ==
    /\ ev.name = "evict_main"
    /\ Len(ev.main) = MaxEvict
    /\ ev.pops = SumFreq(ev.main) + 1
    /\ ev.pops > 2 * Len(ev.main)

AllAtTwo(q) == q # <<>> /\ \A i \in 1..Len(q) : q[i].freq = 2

\* C13 (worst-case pass count): with Main at capacity and every entry at
\* freq 2, one evict_main call decrements every entry by 1 in one full pass
\* before the discard, each entry being popped at most once before it.
Cex_C13 ==
    (ev.name = "evict_main" /\ AllAtTwo(ev.main) /\ Len(ev.main) = main_size) =>
        /\ ev.pops <= Len(ev.main) + 1
        /\ \A i \in 1..Len(main) : main[i].freq = 1

\* C13 as amended: with Main at capacity and every entry at freq 2, one call
\* makes two full passes (every entry popped twice and lowered to 0) and
\* discards the entry that was at the back on pop 2 * len + 1; no call needs
\* more than MAX_FREQ * len + 1 pops.
Thm_C13 ==
    (ev.name = "evict_main" /\ ev.main # <<>>) =>
        /\ ev.pops <= MAX_FREQ * Len(ev.main) + 1
        /\ (AllAtTwo(ev.main) /\ Len(ev.main) = main_size) =>
               /\ ev.pops = 2 * Len(ev.main) + 1
               /\ \A i \in 1..Len(main) : main[i].freq = 0
               /\ ev.victim = <<[Back(ev.main) EXCEPT !.freq = 0]>>
               /\ \A i \in 1..Len(main) :
                      main[i].key = ev.main[i].key /\ main[i].value = ev.main[i].value

\* evict_main has just run on a full Main of MaxEvict entries, all at freq 2
Wit_C13 ==
    /\ ev.name = "evict_main"
    /\ AllAtTwo(ev.main)
    /\ Len(ev.main) = MaxEvict
    /\ Len(ev.main) = main_size
    /\ ev.pops = 2 * MaxEvict + 1

\* C19 (victim choice of evict-from-Main): with minimum counter m, evict_main
\* discards the entry nearest the back among those with counter m; survivors
\* that were behind it end lowered by m + 1, those in front by m, in the same
\* cyclic order with the entries that were behind the victim now at the front.
Thm_C19 ==
    (ev.name = "evict_main" /\ ev.main # <<>>) =>
        /\ main = Survivors(ev.main)
        /\ ev.victim = <<[ev.main[VictimIdx(ev.main)] EXCEPT !.freq = 0]>>

\* the victim was in the middle of Main, with counter 1, between higher counters
Wit_C19 ==
    /\ ev.name = "evict_main"
    /\ Len(ev.main) = 3
    /\ ev.main[2].freq = 1
    /\ ev.main[1].freq = 3
    /\ ev.main[3].freq = 2
    /\ ev.main[1].key # ev.main[3].key
    /\ Len(main) = 2

\* ---------------------------------------------------------------------
\* Ghost and counters across whole calls (specification Spec)

\* C14 (Ghost provenance): a key enters Ghost only in evict_small, for an entry
\* leaving Small with counter <= 1, at Ghost's front, Ghost losing its back key
\* only when it is at capacity; a call in which evict_main discards an entry
\* from Main leaves Ghost unchanged.
GhostProvenance ==
    ghost' # ghost =>
        /\ small # <<>>
        /\ Back(small).freq <= 1
        /\ Len(small) >= small_size
        /\ ghost' = <<Back(small).key>> \o (IF Len(ghost) >= main_size
                                            THEN PopBack(ghost) ELSE ghost)
        /\ main' = main

Thm_C14 == [][GhostProvenance /\ (Len(main') < Len(main) => ghost' = ghost)]_vars

\* Ghost is at its cap with two different keys while Main is full
Wit_C14 ==
    /\ op.name = "insert"
    /\ Len(ghost) = 2
    /\ main_size = 2
    /\ ghost[1] # ghost[2]
    /\ Len(main) = main_size
    /\ ~HasKey(main, ghost[1])

\* C15 (Ghost is not consumed by a hit): an insert whose key is in Ghost leaves
\* Ghost and Small unchanged and adds one more entry at the front of Main, so
\* the key is still in Ghost for the next insert.
GhostHitFrame(k, v) ==
    /\ ghost' = ghost
    /\ small' = small
    /\ Contains(ghost', k)
    /\ main' # <<>>
    /\ Head(main') = [key |-> k, value |-> v, freq |-> 0]
    /\ Len(main') = Min(Len(main) + 1, main_size)

Thm_C15 ==
    [][\A k \in Keys, v \in Values :
           (Insert(k, v) /\ Contains(ghost, k)) => GhostHitFrame(k, v)]_vars

\* two inserts of a key that stayed in Ghost have both gone to Main
Wit_C15 ==
    /\ op.name = "insert"
    /\ Contains(ghost, op.key)
    /\ Len(main) = 2
    /\ main[1].key = op.key
    /\ main[2].key = op.key
    /\ main[1].freq = 0
    /\ main[2].freq = 0

\* C18 (counter monotonicity): a counter starts at 0 on insert, is raised only
\* by a read that matches that entry, is lowered only inside evict_main (by 1
\* for each pop with counter > 0), and is unchanged by the move from Small to Main.
InsertCounters(k, v) ==
    LET fresh == [key |-> k, value |-> v, freq |-> 0]
    IN /\ small' = small \/ (small' # <<>> /\ Head(small') = fresh
                             /\ Tail(small') \in {small, PopBack(small)})
       /\ \/ main' = main
          \/ /\ main' # <<>>
             /\ Head(main') = fresh \/ (small # <<>> /\ Head(main') = Back(small)
                                        /\ Back(small).freq > 1)
             /\ Tail(main') = IF Len(main) >= main_size THEN Survivors(main) ELSE main

ReadCounters(k) ==
    LET pos == find(small, main, k)
    IN /\ \A i \in 1..Len(small) :
              small'[i].freq = IF pos.q = "small" /\ pos.i = i
                               THEN Min(small[i].freq + 1, MAX_FREQ) ELSE small[i].freq
       /\ \A i \in 1..Len(main) :
              main'[i].freq = IF pos.q = "main" /\ pos.i = i
                              THEN Min(main[i].freq + 1, MAX_FREQ) ELSE main[i].freq

Thm_C18 ==
    [][/\ \A k \in Keys, v \in Values : Insert(k, v) => InsertCounters(k, v)
       /\ \A k \in Keys : Read(k) => ReadCounters(k)]_vars

\* an insert has left at Main's front an entry that carries the counter it had in Small
Wit_C18 ==
    /\ op.name = "insert"
    /\ main # <<>>
    /\ Head(main).freq = MAX_FREQ
    /\ small # <<>>
    /\ Head(small) = [key |-> op.key, value |-> op.value, freq |-> 0]
    /\ Len(main) = 2

\* ---------------------------------------------------------------------
\* Adaptive sizing (specifications SpecTick and SpecHist)

\* C16 (sizing tick period): built with initial_insert_count = 0, the sizing
\* step runs on exactly the 3rd, 6th, ... insert and on no other call;
\* small_size changes only in those inserts; after each of them the insert
\* counter is 0 and the activity flag is false; the insert counter is always
\* in {0, 1, 2} between calls.
TickOnThird(k, v) ==
    IF (hist.n + 1) % 3 = 0
    THEN insert_count' = 0 /\ ~small_operated'
    ELSE /\ small_size' = small_size
         /\ insert_count' = insert_count + 1
         /\ small_operated' = (small_operated \/ HasKey(small, k))

Thm_C16 ==
    /\ [](insert_count \in {0, 1, 2} /\ insert_count = hist.n % 3)
    /\ [][/\ \A k \in Keys, v \in Values : Insert(k, v) => TickOnThird(k, v)
          /\ \A k \in Keys :
                 Read(k) => UNCHANGED <<small_size, insert_count, small_operated>>
          /\ small_size' # small_size => hist'.n \in {3, 6, 9}]_vars

\* the 6th insert has just run its sizing step, with small_size above its minimum
Wit_C16 ==
    /\ op.name = "insert"
    /\ hist.n = 6
    /\ insert_count = 0
    /\ ~small_operated
    /\ small_size > small_min_size

\* small_size after a sizing step that sees the flag f, len(small) taken after the push
SizingRule(f) ==
    small_size' =
        IF Len(small') = small_size THEN Min(small_size + 1, small_max_size)
        ELSE IF f /\ small_size > small_min_size THEN small_size - 1
        ELSE small_size

ReadsOf(pos) == {r \in Readers : rent[r] = pos}

\* C20 (no lost or spurious increments): when n readers run read on the same
\* resident entry concurrently, from counter f0 in [0, MAX_FREQ] and with no
\* insert meanwhile, the counter is min(f0 + n, MAX_FREQ) once all have returned.
Thm_C20 ==
    (\A r \in Readers : rpc[r] = "done") =>
        \A i \in 1..Len(small) :
            small[i].freq =
                Min(ev.small[i].freq + Cardinality(ReadsOf([q |-> "small", i |-> i])),
                    MAX_FREQ)

\* every reader has returned from a read of the same entry, which started at
\* MAX_FREQ - 1: one reader needed no store, the others did
Wit_C20 ==
    /\ \A r \in Readers : rpc[r] = "done" /\ rent[r] = [q |-> "small", i |-> 1]
    /\ ev.small[1].freq = MAX_FREQ - 1
    /\ small[1].freq = MAX_FREQ
====
